---- MODULE Spec2Model ----
(***************************************************************************)
(* The AgentSimulator component (src/app/components/AgentSimulator.tsx):   *)
(* its React state, the async handler runSimulation with the two network   *)
(* calls it awaits (authenticateAgent, sendChatRequest), the controls that *)
(* change the state, and the status badge of a recorded result.            *)
(*                                                                         *)
(* runSimulation is an async closure: it reads config, selectedCase and    *)
(* selectedAgent of the render in which it was invoked, so every run in    *)
(* flight carries the values it captured.  A run advances at each await:   *)
(* invocation up to the first fetch, the token response, the gateway       *)
(* response.                                                               *)
(***************************************************************************)
EXTENDS Integers, Sequences, FiniteSets, TLC

VARIABLES
    config,          \* props.config (AppConfig)
    selectedCase,    \* useState<SimulationCase>
    selectedAgent,   \* useState<string>
    isLoading,       \* useState(false)
    results,         \* useState<SimulationResult[]>
    expandedResult,  \* useState<number | null>
    inflight,        \* the invocations of runSimulation suspended at an await
    invoked,         \* number of invocations of runSimulation so far
    alerts,          \* number of alert(...) / onOpenConfig() calls so far
    uncaught,        \* number of rejections that left runSimulation
    clock,           \* the wall clock read by new Date()
    last,            \* the invocation that ended last, as it ended
    badge            \* the badge last rendered by getStatusBadge

vars == <<config, selectedCase, selectedAgent, isLoading, results,
          expandedResult, inflight, invoked, alerts, uncaught, clock, last, badge>>

(***************************************************************************)
(* Bounds of the model.                                                    *)
(***************************************************************************)
\* invocations of runSimulation in one behaviour
MaxRuns == 2
\* largest status code handed to getStatusBadge
MaxStatus == 699

(***************************************************************************)
(* JavaScript values.                                                      *)
(***************************************************************************)
Undefined == "<undefined>"
Null == "<null>"
Pending == "<pending>"

\* ToBoolean of a string | null | undefined
Truthy(v) == v \notin {"", Undefined, Null}

Coordinator == "Support-Coordinator"
Specialist == "Technical-Specialist"
AgentTypes == {Coordinator, Specialist}

SimulationCase == {"correct-agent", "wrong-agent", "no-auth"}

(***************************************************************************)
(* props.config: every one of the seven fields is either empty or set.     *)
(***************************************************************************)
AgentConfigs(id, secret) == [agentId : {"", id}, agentSecret : {"", secret}]

AppConfig ==
    [orgName : {"", "acme"},
     clientId : {"", "c1"},
     targetUrl : {"", "https://gw.example/chat"},
     coordinatorAgent : AgentConfigs("coord-1", "s1"),
     expertAgent : AgentConfigs("spec-1", "s2")]

\* isConfigValid without its test of targetUrl
isConfigValidNoTargetUrl(cfg) ==
    /\ Truthy(cfg.orgName)
    /\ Truthy(cfg.clientId)
    /\ Truthy(cfg.coordinatorAgent.agentId)
    /\ Truthy(cfg.coordinatorAgent.agentSecret)
    /\ Truthy(cfg.expertAgent.agentId)
    /\ Truthy(cfg.expertAgent.agentSecret)

isConfigValid(cfg) ==
    /\ Truthy(cfg.orgName)
    /\ Truthy(cfg.clientId)
    /\ Truthy(cfg.targetUrl)
    /\ Truthy(cfg.coordinatorAgent.agentId)
    /\ Truthy(cfg.coordinatorAgent.agentSecret)
    /\ Truthy(cfg.expertAgent.agentId)
    /\ Truthy(cfg.expertAgent.agentSecret)

\* getAgentCredentials with its two branches exchanged
getAgentCredentialsSwapped(cfg, agentType) ==
    IF agentType = Coordinator
    THEN [agentId |-> cfg.expertAgent.agentId,
          agentSecret |-> cfg.expertAgent.agentSecret]
    ELSE [agentId |-> cfg.coordinatorAgent.agentId,
          agentSecret |-> cfg.coordinatorAgent.agentSecret]

getAgentCredentials(cfg, agentType) ==
    IF agentType = Coordinator
    THEN [agentId |-> cfg.coordinatorAgent.agentId,
          agentSecret |-> cfg.coordinatorAgent.agentSecret]
    ELSE [agentId |-> cfg.expertAgent.agentId,
          agentSecret |-> cfg.expertAgent.agentSecret]

\* getWrongAgentCredentials taking the credentials of the claimed agent
getWrongAgentCredentialsOfClaimed(cfg) ==
    [credentials |-> [agentId |-> cfg.expertAgent.agentId,
                      agentSecret |-> cfg.expertAgent.agentSecret],
     claimedAgentType |-> Specialist]

getWrongAgentCredentials(cfg) ==
    [credentials |-> [agentId |-> cfg.coordinatorAgent.agentId,
                      agentSecret |-> cfg.coordinatorAgent.agentSecret],
     claimedAgentType |-> Specialist]

(***************************************************************************)
(* The two requests.                                                       *)
(***************************************************************************)
\* the fetch of authenticateAgent
TokenRequest(cfg, agentId, agentSecret) ==
    [url |-> "/api/auth/agent-token",
     method |-> "POST",
     body |-> [orgName |-> cfg.orgName,
               clientId |-> cfg.clientId,
               agentId |-> agentId,
               agentSecret |-> agentSecret]]

\* the headers with Authorization set whatever the token is
ChatHeadersAlwaysAuthorization(cfg, token, agentType) ==
    ("Content-Type" :> <<"application/json">>)
    @@ ("x-agent-type" :> <<agentType>>)
    @@ ("x-target-url" :> <<cfg.targetUrl>>)
    @@ ("Authorization" :> <<"Bearer", token>>)

\* the headers of sendChatRequest: Authorization only for a truthy token
ChatHeaders(cfg, token, agentType) ==
    LET base == ("Content-Type" :> <<"application/json">>)
                @@ ("x-agent-type" :> <<agentType>>)
                @@ ("x-target-url" :> <<cfg.targetUrl>>)
    IN  IF Truthy(token)
        THEN base @@ ("Authorization" :> <<"Bearer", token>>)
        ELSE base

\* the fetch of sendChatRequest
ChatRequest(cfg, token, agentType) ==
    [url |-> "/api/chat",
     method |-> "POST",
     headers |-> ChatHeaders(cfg, token, agentType),
     content |-> <<"Hello, I am ", agentType, ". This is a test message.">>]

(***************************************************************************)
(* What the two endpoints may answer.                                      *)
(***************************************************************************)
FetchFailed == "Failed to fetch"
JsonSyntaxError == "Unexpected token < in JSON at position 0"
GenericAuthError == "Failed to authenticate"

\* the token endpoint issues a fresh token to each invocation it answers
IssuedToken(id) ==
    CASE id = 1 -> "T1" [] id = 2 -> "T2" [] id = 3 -> "T3" [] OTHER -> "Tn"

ErrorFields == {Undefined, "", "invalid_client"}
AccessTokenFields(id) == {Undefined, "", IssuedToken(id)}

\* a fetch that rejects, or a response with its ok flag and its body: text
\* that is not JSON, or a JSON object with its error and access_token fields
TokenResponses(id) ==
    {[fault |-> TRUE, ok |-> FALSE, json |-> FALSE,
      error |-> Undefined, access_token |-> Undefined]}
    \cup [fault : {FALSE}, ok : BOOLEAN, json : {FALSE},
          error : {Undefined}, access_token : {Undefined}]
    \cup [fault : {FALSE}, ok : {FALSE}, json : {TRUE},
          error : ErrorFields, access_token : {Undefined}]
    \cup [fault : {FALSE}, ok : {TRUE}, json : {TRUE},
          error : {Undefined}, access_token : AccessTokenFields(id)]

\* a fetch that rejects, a body that is not JSON, or a status with a JSON
\* body: an answer, a denial by the gateway, an error of the gateway
ChatResponses ==
    {[fault |-> TRUE, json |-> FALSE, status |-> 0, data |-> <<>>],
     [fault |-> FALSE, json |-> FALSE, status |-> 502, data |-> <<>>],
     [fault |-> FALSE, json |-> TRUE, status |-> 200, data |-> <<"reply", "hello">>],
     [fault |-> FALSE, json |-> TRUE, status |-> 403, data |-> <<"error", "denied">>],
     [fault |-> FALSE, json |-> TRUE, status |-> 500, data |-> <<"error", "upstream">>]}

Returned(v) == [thrown |-> FALSE, message |-> "", value |-> v]
Thrown(msg) == [thrown |-> TRUE, message |-> msg, value |-> Undefined]

\* authenticateAgent without its test of response.ok
authenticateAgentIgnoresStatus(resp) ==
    IF resp.fault THEN Thrown(FetchFailed)
    ELSE IF ~resp.json THEN Thrown(JsonSyntaxError)
    ELSE Returned(resp.access_token)

\* authenticateAgent after its fetch settled with resp
authenticateAgent(resp) ==
    IF resp.fault THEN Thrown(FetchFailed)
    ELSE IF ~resp.json THEN Thrown(JsonSyntaxError)
    ELSE IF ~resp.ok
         THEN Thrown(IF Truthy(resp.error) THEN resp.error ELSE GenericAuthError)
    ELSE Returned(resp.access_token)

\* sendChatRequest throwing on a non-success status, as authenticateAgent does
sendChatRequestThrowsOnStatus(resp) ==
    IF resp.fault THEN Thrown(FetchFailed)
    ELSE IF ~resp.json THEN Thrown(JsonSyntaxError)
    ELSE IF resp.status >= 400 THEN Thrown("Request failed")
    ELSE Returned([data |-> resp.data, statusCode |-> resp.status])

\* sendChatRequest after its fetch settled with resp
sendChatRequest(resp) ==
    IF resp.fault THEN Thrown(FetchFailed)
    ELSE IF ~resp.json THEN Thrown(JsonSyntaxError)
    ELSE Returned([data |-> resp.data, statusCode |-> resp.status])

(***************************************************************************)
(* The records of runSimulation.                                           *)
(***************************************************************************)
Credentials(s) == <<s, " credentials">>

\* the result of the try block, per case
SimulationResult(run, data, statusCode, now) ==
    IF run.selectedCase = "correct-agent"
    THEN [caseType |-> "correct-agent",
          agentType |-> run.selectedAgent,
          authUsed |-> Credentials(run.selectedAgent),
          tokenReceived |-> run.token,
          response |-> data,
          statusCode |-> statusCode,
          timestamp |-> now]
    ELSE IF run.selectedCase = "wrong-agent"
    THEN [caseType |-> "wrong-agent",
          agentType |-> Specialist,
          authUsed |-> Credentials(Coordinator),
          tokenReceived |-> run.token,
          response |-> data,
          statusCode |-> statusCode,
          timestamp |-> now]
    ELSE [caseType |-> "no-auth",
          agentType |-> run.selectedAgent,
          authUsed |-> <<"No authentication">>,
          tokenReceived |-> Null,
          response |-> data,
          statusCode |-> statusCode,
          timestamp |-> now]

\* the errorResult keeping the token the try block had obtained
ErrorResultKeepsToken(run, message, now) ==
    [caseType |-> run.selectedCase,
     agentType |-> run.selectedAgent,
     authUsed |-> IF run.selectedCase = "no-auth"
                  THEN <<"No authentication">>
                  ELSE Credentials(run.selectedAgent),
     tokenReceived |-> IF run.token = Pending THEN Null ELSE run.token,
     response |-> <<"error", message>>,
     statusCode |-> 500,
     timestamp |-> now]

\* the errorResult of the catch block
ErrorResult(run, message, now) ==
    [caseType |-> run.selectedCase,
     agentType |-> run.selectedAgent,
     authUsed |-> IF run.selectedCase = "no-auth"
                  THEN <<"No authentication">>
                  ELSE Credentials(run.selectedAgent),
     tokenReceived |-> Null,
     response |-> <<"error", message>>,
     statusCode |-> 500,
     timestamp |-> now]

\* setResults(prev => [...prev, result])
AppendLast(result, prev) == prev \o <<result>>

\* setResults(prev => [result, ...prev])
Prepend(result, prev) == <<result>> \o prev

RemoveAt(s, i) == SubSeq(s, 1, i - 1) \o SubSeq(s, i + 1, Len(s))

Init ==
    /\ config \in AppConfig
    /\ selectedCase = "correct-agent"
    /\ selectedAgent = Coordinator
    /\ isLoading = FALSE
    /\ results = <<>>
    /\ expandedResult = <<>>
    /\ inflight = <<>>
    /\ invoked = 0
    /\ alerts = 0
    /\ uncaught = 0
    /\ clock = 0
    /\ last = <<>>
    /\ badge = <<>>

(***************************************************************************)
(* runSimulation.                                                          *)
(***************************************************************************)
\* the invocation as it stands at its first await: what it captured, the
\* credentials and the claimed agent type of its case, the request it has
\* sent; then the responses it received and the results it recorded
StartRun(id, cfg, case, agent) ==
    LET base == [id |-> id,
                 config |-> cfg, selectedCase |-> case, selectedAgent |-> agent,
                 pc |-> "authenticating", agentType |-> agent, token |-> Pending,
                 tokenReqs |-> <<>>, gatewayReqs |-> <<>>,
                 tokenResps |-> <<>>, chatResps |-> <<>>, recorded |-> <<>>]
    IN  IF case = "correct-agent"
        THEN LET credentials == getAgentCredentials(cfg, agent)
             IN  [base EXCEPT
                    !.tokenReqs = <<TokenRequest(cfg, credentials.agentId,
                                                 credentials.agentSecret)>>]
        ELSE IF case = "wrong-agent"
        THEN LET wrong == getWrongAgentCredentials(cfg)
             IN  [base EXCEPT
                    !.agentType = wrong.claimedAgentType,
                    !.tokenReqs = <<TokenRequest(cfg, wrong.credentials.agentId,
                                                 wrong.credentials.agentSecret)>>]
        ELSE [base EXCEPT
                !.pc = "dispatching",
                !.token = Null,
                !.gatewayReqs = <<ChatRequest(cfg, Null, agent)>>]

\* a catch block that logs the failure and throws it again
CatchBlockRethrows(run, message, prev, now) ==
    [results |-> prev, rethrown |-> TRUE]

\* the catch block: the failure becomes a result, nothing is thrown again
CatchBlock(run, message, prev, now) ==
    [results |-> Prepend(ErrorResult(run, message, now), prev), rethrown |-> FALSE]

\* the end of the try block
RecordResult(run, data, statusCode, prev, now) ==
    Prepend(SimulationResult(run, data, statusCode, now), prev)

\* the entries a state update has put in front of prev
Recorded(new, prev) ==
    IF Len(new) > Len(prev) THEN SubSeq(new, 1, Len(new) - Len(prev)) ELSE <<>>

\* the finally block, and the invocation is over
Finally(i, run, new) ==
    /\ isLoading' = FALSE
    /\ inflight' = RemoveAt(inflight, i)
    /\ clock' = clock + 1
    /\ last' = <<[run EXCEPT !.pc = "done", !.recorded = Recorded(new, results)]>>

Caught(i, run, message) ==
    LET c == CatchBlock(run, message, results, clock)
    IN  /\ results' = c.results
        /\ expandedResult' = IF c.rethrown THEN expandedResult ELSE <<0>>
        /\ uncaught' = IF c.rethrown THEN uncaught + 1 ELSE uncaught
        /\ Finally(i, run, c.results)

\* lines 111-118 and the case's code up to its first await
RunSimulation ==
    /\ invoked < MaxRuns
    /\ invoked' = invoked + 1
    /\ IF ~isConfigValid(config)
       THEN /\ alerts' = alerts + 1
            /\ UNCHANGED <<isLoading, inflight>>
       ELSE /\ isLoading' = TRUE
            /\ inflight' = Append(inflight,
                                   StartRun(invoked + 1, config, selectedCase, selectedAgent))
            /\ UNCHANGED alerts
    /\ UNCHANGED <<config, selectedCase, selectedAgent, results, expandedResult,
                   uncaught, clock, last, badge>>

\* the run control, not disabled while a run is loading
RunDisabledIgnoresLoading == ~isConfigValid(config)

\* the run control: disabled={isLoading || !isConfigValid()}
RunDisabled == isLoading \/ ~isConfigValid(config)

ClickRun == ~RunDisabled /\ RunSimulation

\* runSimulation called as a function, whatever the control shows
CallRunSimulation == RunSimulation

\* the token endpoint answers the i-th invocation in flight
TokenResponse(i, resp) ==
    LET run == [inflight[i] EXCEPT !.tokenResps = <<resp>>]
        out == authenticateAgent(resp)
    IN  /\ inflight[i].pc = "authenticating"
        /\ IF out.thrown
           THEN Caught(i, run, out.message)
           ELSE /\ inflight' = [inflight EXCEPT ![i] =
                        [run EXCEPT
                           !.pc = "dispatching",
                           !.token = out.value,
                           !.gatewayReqs = Append(run.gatewayReqs,
                               ChatRequest(run.config, out.value, run.agentType))]]
                /\ UNCHANGED <<isLoading, results, expandedResult, uncaught, clock, last>>
        /\ UNCHANGED <<config, selectedCase, selectedAgent, invoked, alerts, badge>>

\* the gateway endpoint answers the i-th invocation in flight
ChatResponse(i, resp) ==
    LET run == [inflight[i] EXCEPT !.chatResps = <<resp>>]
        out == sendChatRequest(resp)
    IN  /\ inflight[i].pc = "dispatching"
        /\ IF out.thrown
           THEN Caught(i, run, out.message)
           ELSE LET new == RecordResult(run, out.value.data, out.value.statusCode,
                                        results, clock)
                IN  /\ results' = new
                    /\ expandedResult' = <<0>>
                    /\ UNCHANGED uncaught
                    /\ Finally(i, run, new)
        /\ UNCHANGED <<config, selectedCase, selectedAgent, invoked, alerts, badge>>

AwaitToken == \E i \in 1..Len(inflight) : \E resp \in TokenResponses(inflight[i].id) : TokenResponse(i, resp)

AwaitChat == \E i \in 1..Len(inflight) : \E resp \in ChatResponses : ChatResponse(i, resp)

(***************************************************************************)
(* The controls.                                                           *)
(***************************************************************************)
SelectCase ==
    /\ \E c \in SimulationCase \ {selectedCase} : selectedCase' = c
    /\ UNCHANGED <<config, selectedAgent, isLoading, results, expandedResult,
                   inflight, invoked, alerts, uncaught, clock, last, badge>>

\* the select is rendered for correct-agent and no-auth only
SelectAgent ==
    /\ selectedCase \in {"correct-agent", "no-auth"}
    /\ \E a \in AgentTypes \ {selectedAgent} : selectedAgent' = a
    /\ UNCHANGED <<config, selectedCase, isLoading, results, expandedResult,
                   inflight, invoked, alerts, uncaught, clock, last, badge>>

\* Clear All is rendered while results.length > 0
clearResults ==
    /\ Len(results) > 0
    /\ results' = <<>>
    /\ expandedResult' = <<>>
    /\ UNCHANGED <<config, selectedCase, selectedAgent, isLoading,
                   inflight, invoked, alerts, uncaught, clock, last, badge>>

\* the parent renders the component with another config: the complete one,
\* or the one whose target URL is missing
ValidConfig == CHOOSE cfg \in AppConfig : isConfigValid(cfg)

ConfigChange ==
    /\ \E cfg \in {ValidConfig, [ValidConfig EXCEPT !.targetUrl = ""]} \ {config} :
          config' = cfg
    /\ UNCHANGED <<selectedCase, selectedAgent, isLoading, results, expandedResult,
                   inflight, invoked, alerts, uncaught, clock, last, badge>>

(***************************************************************************)
(* The status badge of a result.                                           *)
(***************************************************************************)
\* getStatusBadge with the upper edges of its ranges included
getStatusBadgeInclusive(statusCode) ==
    IF statusCode >= 200 /\ statusCode <= 300 THEN "Success"
    ELSE IF statusCode >= 400 /\ statusCode <= 500 THEN "Client Error"
    ELSE "Error"

getStatusBadge(statusCode) ==
    IF statusCode >= 200 /\ statusCode < 300 THEN "Success"
    ELSE IF statusCode >= 400 /\ statusCode < 500 THEN "Client Error"
    ELSE "Error"

\* results.map: the header of the i-th result
RenderBadge ==
    /\ \E i \in 1..Len(results) :
          badge' = <<[result |-> results[i],
                      label |-> getStatusBadge(results[i].statusCode)]>>
    /\ UNCHANGED <<config, selectedCase, selectedAgent, isLoading, results,
                   expandedResult, inflight, invoked, alerts, uncaught, clock, last>>

(***************************************************************************)
(* Specifications.                                                         *)
(***************************************************************************)
\* the component driven through its controls
Next ==
    \/ ClickRun
    \/ AwaitToken
    \/ AwaitChat
    \/ SelectCase
    \/ SelectAgent
    \/ clearResults

Spec == Init /\ [][Next]_vars

\* runSimulation called directly while the parent may pass another config;
\* the selection stays as it is first rendered
NextHandler ==
    \/ CallRunSimulation
    \/ ConfigChange
    \/ AwaitToken
    \/ AwaitChat
    \/ clearResults

SpecHandler == Init /\ [][NextHandler]_vars

\* getStatusBadge applied to the one result of a history: a result of any
\* case and agent, with any status code up to MaxStatus
BadgeResults ==
    {SimulationResult([StartRun(1, ValidConfig, c, a) EXCEPT !.token = "T1"],
                      <<"reply", "hello">>, code, 0) :
        c \in SimulationCase, a \in AgentTypes, code \in 0..MaxStatus}
    \cup {ErrorResult(StartRun(1, ValidConfig, c, a), FetchFailed, 0) :
        c \in SimulationCase, a \in AgentTypes}

InitBadge ==
    /\ config = ValidConfig
    /\ selectedCase = "correct-agent"
    /\ selectedAgent = Coordinator
    /\ isLoading = FALSE
    /\ results \in {<<r>> : r \in BadgeResults}
    /\ expandedResult = <<0>>
    /\ inflight = <<>>
    /\ invoked = 1
    /\ alerts = 0
    /\ uncaught = 0
    /\ clock = 1
    /\ last = <<>>
    /\ badge = <<>>

NextBadge == RenderBadge

SpecBadge == InitBadge /\ [][NextBadge]_vars

(***************************************************************************)
(* The claims.                                                             *)
(***************************************************************************)
\* the invocations in flight and the one that ended last
Runs == {inflight[i] : i \in 1..Len(inflight)} \cup {last[i] : i \in 1..Len(last)}

Ended(run) == run.pc = "done"

\* the credential pair the configuration gives a role
RoleCredentials(cfg, role) ==
    IF role = Coordinator THEN cfg.coordinatorAgent ELSE cfg.expertAgent

OtherRole(role) == IF role = Coordinator THEN Specialist ELSE Coordinator

SomeRequiredFieldEmpty(cfg) ==
    \/ cfg.orgName = ""
    \/ cfg.clientId = ""
    \/ cfg.targetUrl = ""
    \/ cfg.coordinatorAgent.agentId = ""
    \/ cfg.coordinatorAgent.agentSecret = ""
    \/ cfg.expertAgent.agentId = ""
    \/ cfg.expertAgent.agentSecret = ""

\* C1 - result totality: an invocation with complete configuration becomes a
\* run; the step that ends a run puts exactly one result in front of the
\* history and lets no failure out of runSimulation, whatever the two
\* endpoints answered; no other step adds a result.
ResultTotality ==
    [][ /\ (invoked' # invoked /\ ~SomeRequiredFieldEmpty(config))
            => Len(inflight') = Len(inflight) + 1
        /\ Len(inflight') < Len(inflight)
            => /\ Len(results') = Len(results) + 1
               /\ Tail(results') = results
               /\ last'[1].recorded = <<Head(results')>>
               /\ Head(results').caseType = last'[1].selectedCase
               /\ uncaught' = 0
        /\ Len(inflight') >= Len(inflight)
            => Len(results') <= Len(results) /\ uncaught' = 0 ]_vars

\* two runs have ended, the later one a wrong-agent run whose token request
\* failed at transport level, and each has left its result
ResultTotalityWitness ==
    /\ invoked = 2
    /\ inflight = <<>>
    /\ Len(results) = 2
    /\ last[1].selectedCase = "wrong-agent"
    /\ last[1].tokenResps[1].fault
    /\ results[2].caseType = "no-auth"

\* C2 - precondition gate: an invocation of runSimulation while one of the
\* seven required fields is empty starts no run (so sends no request),
\* leaves the history as it is and does not touch isLoading.
PreconditionGate ==
    [][ (invoked' # invoked /\ SomeRequiredFieldEmpty(config))
            => /\ inflight' = inflight
               /\ results' = results
               /\ isLoading' = isLoading
               /\ alerts' = alerts + 1 ]_vars

\* runSimulation was refused for a missing target URL after an earlier run
\* had left a result
PreconditionGateWitness ==
    /\ alerts = 1
    /\ config.targetUrl = ""
    /\ ~SomeRequiredFieldEmpty([config EXCEPT !.targetUrl = "x"])
    /\ Len(results) = 1
    /\ inflight = <<>>

\* C3 - impersonation fixed mapping: a wrong-agent run sends one token
\* request, with the coordinator's agentId and agentSecret, and every gateway
\* request of it claims Technical-Specialist, whichever agent it captured.
ImpersonationFixedMapping ==
    \A run \in Runs :
        run.selectedCase = "wrong-agent" =>
            /\ Len(run.tokenReqs) = 1
            /\ run.tokenReqs[1].body.agentId = run.config.coordinatorAgent.agentId
            /\ run.tokenReqs[1].body.agentSecret = run.config.coordinatorAgent.agentSecret
            /\ \A k \in 1..Len(run.gatewayReqs) :
                   run.gatewayReqs[k].headers["x-agent-type"] = <<"Technical-Specialist">>

\* a wrong-agent run invoked with Technical-Specialist selected has sent both
\* requests and ended
ImpersonationFixedMappingWitness ==
    /\ last # <<>>
    /\ last[1].selectedCase = "wrong-agent"
    /\ last[1].selectedAgent = Specialist
    /\ Len(last[1].gatewayReqs) = 1
    /\ Len(last[1].chatResps) = 1

\* C4 - unauthenticated scenario: a no-auth run sends no token request and
\* one gateway request, whose headers have no Authorization entry, and the
\* result it records has tokenReceived = null.
UnauthenticatedScenario ==
    /\ \A run \in Runs :
          run.selectedCase = "no-auth" =>
              /\ run.tokenReqs = <<>>
              /\ Len(run.gatewayReqs) = 1
              /\ "Authorization" \notin DOMAIN run.gatewayReqs[1].headers
              /\ Ended(run) => /\ Len(run.recorded) = 1
                               /\ run.recorded[1].tokenReceived = Null
    /\ \A i \in 1..Len(results) :
          results[i].caseType = "no-auth" => results[i].tokenReceived = Null

\* a no-auth run has ended with the gateway's answer recorded
UnauthenticatedScenarioWitness ==
    /\ last # <<>>
    /\ last[1].selectedCase = "no-auth"
    /\ Len(last[1].chatResps) = 1
    /\ last[1].chatResps[1].status = 200
    /\ last[1].chatResps[1].json
    /\ Len(results) > 0
    /\ results[1].caseType = "no-auth"

\* C5 - role isolation: a correct-agent run that captured role R sends one
\* token request, with R's agentId and agentSecret and not the other role's,
\* claims R in every gateway request, and records agentType = R and
\* authUsed = 'R credentials'.
RoleIsolation ==
    \A run \in Runs :
        run.selectedCase = "correct-agent" =>
            LET R == run.selectedAgent
                own == RoleCredentials(run.config, R)
                other == RoleCredentials(run.config, OtherRole(R))
            IN  /\ Len(run.tokenReqs) = 1
                /\ run.tokenReqs[1].body.agentId = own.agentId
                /\ run.tokenReqs[1].body.agentSecret = own.agentSecret
                /\ run.tokenReqs[1].body.agentId # other.agentId
                /\ run.tokenReqs[1].body.agentSecret # other.agentSecret
                /\ \A k \in 1..Len(run.gatewayReqs) :
                       run.gatewayReqs[k].headers["x-agent-type"] = <<R>>
                /\ Ended(run) => /\ Len(run.recorded) = 1
                                 /\ run.recorded[1].agentType = R
                                 /\ run.recorded[1].authUsed = <<R, " credentials">>

\* a correct-agent run invoked as Technical-Specialist has succeeded after
\* the selection went back to Support-Coordinator
RoleIsolationWitness ==
    /\ last # <<>>
    /\ last[1].selectedCase = "correct-agent"
    /\ last[1].selectedAgent = Specialist
    /\ selectedAgent = Coordinator
    /\ Len(last[1].chatResps) = 1
    /\ last[1].chatResps[1].status = 200
    /\ last[1].chatResps[1].json

\* what the token endpoint or the gateway did to make the run fail
TokenRequestFailed(run) ==
    /\ Len(run.tokenResps) = 1
    /\ run.tokenResps[1].fault \/ ~run.tokenResps[1].ok

GatewayTransportFault(run) ==
    /\ Len(run.chatResps) = 1
    /\ run.chatResps[1].fault

\* the message of the failure
FailureText(run) ==
    IF GatewayTransportFault(run) THEN "Failed to fetch"
    ELSE IF run.tokenResps[1].fault THEN "Failed to fetch"
    ELSE IF ~run.tokenResps[1].json THEN JsonSyntaxError
    ELSE IF run.tokenResps[1].error \in {Undefined, ""} THEN "Failed to authenticate"
    ELSE run.tokenResps[1].error

\* C6 - failure record shape: a run that ended after its token request
\* failed, or after its gateway request failed at transport level, recorded
\* one result with statusCode 500, the error text as response and
\* tokenReceived = null, also when it had obtained a token.
FailureRecordShape ==
    \A i \in 1..Len(last) :
        (TokenRequestFailed(last[i]) \/ GatewayTransportFault(last[i])) =>
            /\ Len(last[i].recorded) = 1
            /\ last[i].recorded[1].statusCode = 500
            /\ last[i].recorded[1].response = <<"error", FailureText(last[i])>>
            /\ last[i].recorded[1].tokenReceived = Null

\* a run had obtained a token when its gateway request failed at transport
\* level
FailureRecordShapeWitness ==
    /\ last # <<>>
    /\ last[1].token = "T1"
    /\ GatewayTransportFault(last[1])
    /\ results # <<>>
    /\ results[1] = last[1].recorded[1]

\* a success response of the token endpoint without a usable access_token
MalformedSuccess(run) ==
    /\ Len(run.tokenResps) = 1
    /\ ~run.tokenResps[1].fault
    /\ run.tokenResps[1].ok
    /\ run.tokenResps[1].json
    /\ run.tokenResps[1].access_token \in {Undefined, ""}

\* C7 - malformed success body is an authentication failure: after a success
\* response without a usable access_token the run sends no gateway request
\* and records a failure with statusCode 500 and tokenReceived = null.
MalformedSuccessIsFailure ==
    \A run \in Runs :
        MalformedSuccess(run) =>
            /\ run.gatewayReqs = <<>>
            /\ Ended(run) => /\ Len(run.recorded) = 1
                             /\ run.recorded[1].statusCode = 500
                             /\ run.recorded[1].tokenReceived = Null

\* C8 - authentication failure reason: after a non-success token response the
\* recorded reason is the body's error field when it is present and
\* non-empty, and 'Failed to authenticate' in every other case.
AuthenticationFailureReason ==
    \A i \in 1..Len(last) :
        LET run == last[i]
        IN  (Len(run.tokenResps) = 1 /\ ~run.tokenResps[1].fault /\ ~run.tokenResps[1].ok) =>
                /\ Len(run.recorded) = 1
                /\ run.recorded[1].response =
                      <<"error",
                        IF run.tokenResps[1].json
                           /\ run.tokenResps[1].error \notin {Undefined, ""}
                        THEN run.tokenResps[1].error
                        ELSE "Failed to authenticate">>

MostRecentFirst(history) ==
    \A i, j \in 1..Len(history) :
        i < j => history[i].timestamp >= history[j].timestamp

\* C9 - history order: the history is most recent first; a step leaves it as
\* it is, or is the end of a run and puts that run's one result at index 0
\* in front of the unchanged earlier entries, or is clearResults and empties
\* it without touching the runs.
HistoryOrder ==
    [][ /\ MostRecentFirst(results')
        /\ \/ results' = results
           \/ /\ Len(inflight') = Len(inflight) - 1
              /\ Len(results') = Len(results) + 1
              /\ Tail(results') = results
              /\ <<Head(results')>> = last'[1].recorded
           \/ /\ results' = <<>>
              /\ expandedResult' = <<>>
              /\ UNCHANGED <<inflight, last, isLoading, invoked, clock>> ]_vars

\* the history holds the results of two runs, the later one first
HistoryOrderWitness ==
    /\ Len(results) = 2
    /\ results[1].timestamp > results[2].timestamp
    /\ last # <<>>
    /\ <<results[1]>> = last[1].recorded

\* C10 - status classification: the badge of a result is 'Success' for a
\* status code in 200..299, 'Client Error' for one in 400..499 and 'Error'
\* for every other code, whatever the other fields of the result are.
StatusClassification ==
    \A i \in 1..Len(badge) :
        LET code == badge[i].result.statusCode
        IN  /\ code \in 200..299 => badge[i].label = "Success"
            /\ code \in 400..499 => badge[i].label = "Client Error"
            /\ code \notin (200..299) \cup (400..499) => badge[i].label = "Error"

\* the badge of a failure record, with its sentinel 500, has been rendered
StatusClassificationWitness ==
    /\ badge # <<>>
    /\ badge[1].result.statusCode = 500
    /\ badge[1].result.response = <<"error", FetchFailed>>
    /\ badge[1].label = "Error"

\* a request of the run that has been sent and not yet answered
TokenRequestOutstanding(run) == Len(run.tokenReqs) > Len(run.tokenResps)

GatewayRequestOutstanding(run) == Len(run.gatewayReqs) > Len(run.chatResps)

\* C11 - pipeline ordering and token provenance: a correct-agent or
\* wrong-agent run sends at most one token request and at most one gateway
\* request; the gateway request exists only once the run's own token request
\* was answered with a success response, so the two are never outstanding
\* together; an Authorization header of the gateway request bears the token
\* of that answer, which is the token issued to this run and to no other.
PipelineOrdering ==
    \A run \in Runs :
        run.selectedCase \in {"correct-agent", "wrong-agent"} =>
            /\ Len(run.tokenReqs) = 1
            /\ Len(run.tokenResps) <= 1
            /\ Len(run.gatewayReqs) <= 1
            /\ Len(run.chatResps) <= Len(run.gatewayReqs)
            /\ ~(TokenRequestOutstanding(run) /\ GatewayRequestOutstanding(run))
            /\ run.gatewayReqs # <<>> =>
                  /\ Len(run.tokenResps) = 1
                  /\ ~run.tokenResps[1].fault
                  /\ run.tokenResps[1].ok
                  /\ LET headers == run.gatewayReqs[1].headers
                         returned == run.tokenResps[1].access_token
                     IN  /\ "Authorization" \in DOMAIN headers =>
                               /\ headers["Authorization"] = <<"Bearer", returned>>
                               /\ returned = IssuedToken(run.id)
                               /\ \A k \in 1..(run.id - 1) : returned # IssuedToken(k)
                         /\ returned = IssuedToken(run.id) =>
                               "Authorization" \in DOMAIN headers

\* the second run has sent its gateway request with the token issued to it,
\* after the first run had recorded the token issued to the first
PipelineOrderingWitness ==
    /\ last # <<>>
    /\ last[1].id = 2
    /\ last[1].selectedCase = "wrong-agent"
    /\ Len(last[1].gatewayReqs) = 1
    /\ "Authorization" \in DOMAIN last[1].gatewayReqs[1].headers
    /\ last[1].gatewayReqs[1].headers["Authorization"] = <<"Bearer", "T2">>
    /\ Len(results) = 2
    /\ results[2].tokenReceived = "T1"

\* C12 - one scenario in flight: driven through the run control, at most one
\* run is in progress; isLoading holds exactly while one is (set at its
\* start, cleared on every path by which it ends); the control cannot start
\* a run while isLoading holds, and can start the next one once it is
\* cleared.
OneScenarioInFlight ==
    /\ Len(inflight) <= 1
    /\ isLoading <=> Len(inflight) = 1
    /\ isLoading => ~ENABLED ClickRun
    /\ (~isLoading /\ ~SomeRequiredFieldEmpty(config) /\ invoked < MaxRuns)
          => ENABLED ClickRun

\* a run has ended in the catch block and the control has started the next
OneScenarioInFlightWitness ==
    /\ last # <<>>
    /\ last[1].recorded # <<>>
    /\ last[1].recorded[1].response = <<"error", FetchFailed>>
    /\ invoked = 2
    /\ Len(inflight) = 1
    /\ isLoading

\* the gateway answered the run with a status and a JSON body
GatewayAnswered(run) ==
    /\ Len(run.chatResps) = 1
    /\ ~run.chatResps[1].fault
    /\ run.chatResps[1].json

\* C13 - gateway pass-through: a run the gateway answered with a parseable
\* response recorded one result with that response's status code and body,
\* whatever the status, and with the token its token request returned (null
\* in a no-auth run); the result is not the failure record.
GatewayPassThrough ==
    \A i \in 1..Len(last) :
        LET run == last[i]
        IN  GatewayAnswered(run) =>
                /\ Len(run.recorded) = 1
                /\ run.recorded[1].statusCode = run.chatResps[1].status
                /\ run.recorded[1].response = run.chatResps[1].data
                /\ run.recorded[1].caseType = run.selectedCase
                /\ run.recorded[1].tokenReceived =
                      IF run.selectedCase = "no-auth"
                      THEN Null
                      ELSE run.tokenResps[1].access_token

\* a run that had obtained a token recorded the gateway's own 500 and its
\* body, and the token
GatewayPassThroughWitness ==
    /\ last # <<>>
    /\ GatewayAnswered(last[1])
    /\ last[1].chatResps[1].status = 500
    /\ last[1].recorded[1].response = <<"error", "upstream">>
    /\ last[1].recorded[1].tokenReceived = "T1"
    /\ results # <<>>
    /\ results[1] = last[1].recorded[1]

\* C14 - impersonation record labelling: every result a wrong-agent run
\* records, the failure record included, has agentType
\* 'Technical-Specialist' and authUsed 'Support-Coordinator credentials'.
ImpersonationLabelling ==
    \A i \in 1..Len(last) :
        (last[i].selectedCase = "wrong-agent" /\ Len(last[i].recorded) = 1) =>
            /\ last[i].recorded[1].agentType = "Technical-Specialist"
            /\ last[i].recorded[1].authUsed = <<"Support-Coordinator", " credentials">>

====
